---- MODULE Spec2Model ----
(***************************************************************************)
(* Expiring share links of the secure file sharing backend.                *)
(*                                                                         *)
(* The fast store (Redis, keys with a time to live) and the durable store  *)
(* (the share_links table) are shared by the request handlers of           *)
(* ShareLinkService.  Every handler is cut at its store commands: one      *)
(* action per Redis command or database round trip, in program order, so   *)
(* that requests of several workers interleave exactly where the code      *)
(* lets them; the computation between two commands belongs to the step of  *)
(* the command that follows it.  Time is the wall clock in whole seconds.  *)
(***************************************************************************)
EXTENDS Integers, Sequences, FiniteSets, TLC

(* ------------------------------ bounds --------------------------------- *)

\* the clock stops advancing at MaxTime seconds
MaxTime == 90
\* the clock is observed every ClockStep seconds
ClockStep == 30
\* no more downloads of a token are started once MaxCount have been served
MaxCount == 3
\* no more revocations are started once MaxRevokes have been recorded
MaxRevokes == 2

\* share tokens uuid4 can produce, and the request workers
Tokens == {"t1"}
Procs == {1, 2}

(* ---------------------------- optional values -------------------------- *)

\* Python's None and a present value, as sequences of length 0 and 1
None == << >>
Some(x) == << x >>
IsNone(o) == o = << >>
\* Python truthiness of an Optional[int]: None and 0 are false
TruthyInt(o) == o # << >> /\ o[1] # 0
\* Python truthiness of an Optional[str]: None and "" are false
TruthyStr(o) == o # << >> /\ o[1] # ""

Put(f, k, v) == [x \in DOMAIN f \cup {k} |-> IF x = k THEN v ELSE f[x]]
Del(f, k) == [x \in DOMAIN f \ {k} |-> f[x]]

(* ------------------------- users, files, inputs ------------------------ *)

\* the users that send requests: user 1 owns the file, user 2 is another
\* plain user, user 3 is an administrator
UserIds == {1, 2, 3}
\* users table at the start: the requesters and a second administrator
Users == UserIds \cup {4}
UserEmail(u) ==
    CASE u = 1 -> "a@x.com" [] u = 2 -> "b@x.com" [] u = 3 -> "root@x.com"
      [] OTHER -> "ops@x.com"
UserRole(u) == IF u \in {3, 4} THEN Some("admin") ELSE Some("user")
\* `not user.role or user.role.name != "admin"` negated
IsAdmin(u) == UserRole(u) # None /\ UserRole(u)[1] = "admin"

\* files table at the start: file 1 is live and owned by user 1, file 2 is
\* soft-deleted
FileIds == {1, 2}
FileRows ==
    [f \in FileIds |->
        [owner_id |-> 1, is_deleted |-> f = 2,
         filename |-> IF f = 1 THEN "a.txt" ELSE "b.txt",
         content_type |-> "text/plain",
         s3_key |-> IF f = 1 THEN "uploads/1/a" ELSE "uploads/1/b"]]

SecondsPerMinute == 60
MinExpiryMinutes == 1
MaxExpiryMinutes == 43200

\* the request bodies a client can send to POST /share/
ExpiryInputs == {0, 1, 2, 43201}
MaxDownloadsInputs == {None, Some(0), Some(1), Some(2)}
PasswordInputs == {None, Some("pw")}
AllowedEmailInputs == {None, Some("a@x.com")}
\* what a caller of GET /share/{token}/download can supply
SuppliedPasswords == {None, Some("pw"), Some("bad")}
Callers == {None, Some(1), Some(2)}

ShareLinkCreateValid_NoUpperBound(body) ==
    /\ body.expiry_minutes >= MinExpiryMinutes
    /\ (body.max_downloads = None \/ body.max_downloads[1] >= 1)

\* ShareLinkCreate: Field(..., ge=1, le=43200), Field(None, ge=1)
ShareLinkCreateValid(body) ==
    /\ body.expiry_minutes >= MinExpiryMinutes
    /\ body.expiry_minutes <= MaxExpiryMinutes
    /\ (body.max_downloads = None \/ body.max_downloads[1] >= 1)

\* bcrypt: an opaque salted hash, verified against the plaintext
HashPassword(pw) == << "bcrypt", pw >>
VerifyPassword(pw, h) == h = HashPassword(pw)

(* -------------------------------- state -------------------------------- *)

VARIABLES
    now,      \* wall clock, seconds
    redis,    \* fast store: token -> [value, expire_at]
    db,       \* share_links table: token -> row
    workers,  \* number of requests the server handles at once
    users,    \* users table: the ids of the rows it holds
    deactivated, \* users table: the ids of the rows with is_active false
    files,    \* files table: file id -> row
    perms,    \* file_permissions table: its rows by id, and the last id given
    rate,     \* fast store: rate-limit key -> [count, expire_at]
    pc,       \* per worker: the position in its handler
    req,      \* per worker: the locals of its handler
    audit,    \* audit_logs table: a bag of the records written
    served,   \* history: downloads answered with the file locator, per token
    recorded, \* history: increment_download_count calls that returned True
    revoked   \* history: tokens for which revoke_share_link returned True

vars ==
    << now, redis, db, workers, users, deactivated, files, perms, rate, perms, rate, audit,
       pc, req, served, recorded, revoked >>

\* get_current_user: the bearer token of user u is accepted ("ok") or the
\* request is refused before its handler runs
get_current_user(u) ==
    IF u \notin users THEN "401"
    ELSE IF u \in deactivated THEN "403_deactivated"
    ELSE "ok"

FileOwner(f) == files[f].owner_id
FileDeleted(f) == files[f].is_deleted
\* File.id == link_data.file_id, File.is_deleted == False
FindFile(f) == IF f \in FileIds /\ ~FileDeleted(f) THEN Some(f) ELSE None

NoReq ==
    [op |-> "none", token |-> "", user |-> None, body |-> None, data |-> None,
     ttl |-> 0, t0 |-> 0, dbcount |-> 0, inc_ok |-> FALSE, file |-> None,
     late |-> FALSE, result |-> "", info |-> None, password |-> None,
     fault |-> "none", gone |-> FALSE, locator |-> None, existing |-> None,
     level |-> ""]

InFlight == {p \in Procs : pc[p] # "idle"}

\* a request goes to the first idle worker, when the server has capacity
Dispatch(p) ==
    /\ pc[p] = "idle"
    /\ Cardinality(InFlight) < workers
    /\ \A q \in Procs : pc[q] = "idle" => p <= q

\* tokens that uuid4 has handed to a create still running
Reserved == {req[p].token : p \in {q \in Procs : pc[q] \in {"c_set", "c_db"}}}
\* tokens a caller can present: a token is known to nobody before the
\* create that generated it has returned
Presentable == Tokens \ Reserved

(* ----------------------------- fast store ------------------------------ *)

\* RedisClient.get: the JSON value of a key that has not expired
RedisGet(t) == IF t \in DOMAIN redis THEN Some(redis[t].value) ELSE None
\* RedisClient.get_ttl: seconds left, -2 for a key that does not exist
RedisTtl(t) == IF t \in DOMAIN redis THEN redis[t].expire_at - now ELSE -2
\* RedisClient.set_with_expiry: SETEX key seconds value
RedisSetex(t, value, seconds) ==
    Put(redis, t, [value |-> value, expire_at |-> now + seconds])
\* RedisClient.delete
RedisDelete_Skip(t) == redis
RedisDelete(t) == Del(redis, t)
\* keys whose time to live has run out at clock value c are gone
Expire(store, c) ==
    [t \in {k \in DOMAIN store : store[k].expire_at > c} |-> store[t]]

\* the same for the counters, whose time to live may be missing: a key
\* without expiry stays
ExpireCounters(store, c) ==
    [k \in {x \in DOMAIN store :
                IsNone(store[x].expire_at) \/ store[x].expire_at[1] > c} |-> store[k]]

(* ------------------------------ pure parts ----------------------------- *)

validate_share_link_OffByOne(t) ==
    LET data == RedisGet(t) IN
    IF IsNone(data) THEN None
    ELSE IF TruthyInt(data[1].max_downloads)
            /\ data[1].download_count > data[1].max_downloads[1] THEN None
    ELSE data

\* ShareLinkService.validate_share_link
validate_share_link(t) ==
    LET data == RedisGet(t) IN
    IF IsNone(data) THEN None
    ELSE IF TruthyInt(data[1].max_downloads)
            /\ data[1].download_count >= data[1].max_downloads[1] THEN None
    ELSE data

get_share_link_info_Leaky(t) ==
    LET data == validate_share_link(t) IN
    IF IsNone(data)
        THEN [status |-> IF t \in DOMAIN db THEN "410" ELSE "404", info |-> None]
    ELSE [status |-> "200",
          info |-> Some([token |-> t, file_id |-> data[1].file_id,
                         filename |-> data[1].filename,
                         content_type |-> data[1].content_type,
                         expires_at |-> data[1].expires_at, is_valid |-> TRUE,
                         download_count |-> data[1].download_count,
                         max_downloads |-> data[1].max_downloads,
                         has_password |-> data[1].password_hash # None])]

\* ShareLinkService.get_share_link_info: the ShareLinkInfo or a 404
get_share_link_info(t) ==
    LET data == validate_share_link(t) IN
    IF IsNone(data) THEN [status |-> "404", info |-> None]
    ELSE [status |-> "200",
          info |-> Some([token |-> t, file_id |-> data[1].file_id,
                         filename |-> data[1].filename,
                         content_type |-> data[1].content_type,
                         expires_at |-> data[1].expires_at, is_valid |-> TRUE,
                         download_count |-> data[1].download_count,
                         max_downloads |-> data[1].max_downloads,
                         has_password |-> data[1].password_hash # None])]

access_check_EmailFirst(data, password, user) ==
    IF TruthyStr(data.password_hash) /\ ~TruthyStr(password)
        THEN "401_password_required"
    ELSE IF TruthyStr(data.password_hash)
            /\ ~VerifyPassword(password[1], data.password_hash[1])
        THEN "401_invalid_password"
    ELSE IF TruthyStr(data.allowed_email)
            /\ (IsNone(user) \/ UserEmail(user[1]) # data.allowed_email[1])
        THEN "403_forbidden"
    ELSE IF data.requires_auth /\ IsNone(user) THEN "401_auth_required"
    ELSE "ok"

\* the checks of download_via_share_link between validation and the
\* count increment: "ok" or the error it raises
access_check(data, password, user) ==
    IF TruthyStr(data.password_hash) /\ ~TruthyStr(password)
        THEN "401_password_required"
    ELSE IF TruthyStr(data.password_hash)
            /\ ~VerifyPassword(password[1], data.password_hash[1])
        THEN "401_invalid_password"
    ELSE IF data.requires_auth /\ IsNone(user) THEN "401_auth_required"
    ELSE IF TruthyStr(data.allowed_email)
            /\ (IsNone(user) \/ UserEmail(user[1]) # data.allowed_email[1])
        THEN "403_forbidden"
    ELSE "ok"

\* ShareLink.is_expired / ShareLink.is_valid of a durable row
is_expired(row) == now > row.expires_at
is_valid(row) ==
    /\ row.is_active
    /\ ~is_expired(row)
    /\ ~(TruthyInt(row.max_downloads) /\ row.download_count >= row.max_downloads[1])

(* ------------------------------- audit log ----------------------------- *)

\* AuditService.log: one more row with this action, actor and resource
AuditEntry(action, user, resource_type, resource_id) ==
    LET rec == [action |-> action, user_id |-> user,
                user_email |-> IF IsNone(user) THEN None ELSE Some(UserEmail(user[1])),
                resource_type |-> resource_type, resource_id |-> resource_id]
    IN IF rec \in DOMAIN audit THEN [audit EXCEPT ![rec] = @ + 1]
       ELSE Put(audit, rec, 1)

\* the share service logs with resource_type="share_link"
AuditLog(action, user, resource_id) ==
    AuditEntry(action, user, "share_link", resource_id)

RECURSIVE SumCounts(_, _)
SumCounts(bag, recs) ==
    IF recs = {} THEN 0
    ELSE LET r == CHOOSE x \in recs : TRUE
         IN bag[r] + SumCounts(bag, recs \ {r})

\* the number of audit rows with this action
AuditCount(action) ==
    SumCounts(audit, {r \in DOMAIN audit : r.action = action})

(* -------------------------------- Init --------------------------------- *)

InitCommon ==
    /\ now = 0
    /\ redis = << >>
    /\ db = << >>
    /\ users = Users
    /\ deactivated = {}
    /\ perms = [rows |-> << >>, last_id |-> 0]
    /\ rate = << >>
    /\ audit = << >>
    /\ pc = [p \in Procs |-> "idle"]
    /\ req = [p \in Procs |-> NoReq]
    /\ served = [t \in Tokens |-> 0]
    /\ recorded = [t \in Tokens |-> 0]
    /\ revoked = {}

\* several workers serve requests at once
Init == InitCommon /\ files = FileRows /\ workers = Cardinality(Procs)
\* one request at a time
InitSeq == InitCommon /\ files = FileRows /\ workers = 1

Finish(p, r) ==
    /\ pc' = [pc EXCEPT ![p] = "done"]
    /\ req' = [req EXCEPT ![p] = r]

(* -------------------------------- clock -------------------------------- *)

\* time passes; the fast store drops the keys that expire
Tick ==
    /\ now < MaxTime
    /\ now' = now + ClockStep
    /\ redis' = Expire(redis, now + ClockStep)
    /\ rate' = ExpireCounters(rate, now + ClockStep)
    /\ UNCHANGED << db, workers, users, deactivated, files, perms, audit, pc, req, served,
                   recorded, revoked >>

(* ---------------------------- create_share_link ------------------------ *)

FreshToken == CHOOSE t \in Tokens \ (DOMAIN redis \cup DOMAIN db \cup Reserved) : TRUE

\* expiry_seconds = link_data.expiry_minutes * 60
ExpirySeconds_Minutes(body) == body.expiry_minutes
ExpirySeconds(body) == body.expiry_minutes * SecondsPerMinute

\* the redis_data dictionary of create_share_link
RedisData(f, u, body, t0) ==
    [file_id |-> f, filename |-> files[f].filename,
     content_type |-> files[f].content_type, s3_key |-> files[f].s3_key,
     created_by |-> u, created_at |-> t0,
     expires_at |-> t0 + body.expiry_minutes * SecondsPerMinute,
     max_downloads |-> body.max_downloads, download_count |-> 0,
     password_hash |-> IF TruthyStr(body.password)
                       THEN Some(HashPassword(body.password[1])) ELSE None,
     requires_auth |-> body.requires_auth,
     allowed_email |-> body.allowed_email]

ShareLinkRow_NoEmail(d) ==
    [id |-> Cardinality(DOMAIN db) + 1,
     file_id |-> d.file_id, created_by_id |-> Some(d.created_by),
     expires_at |-> d.expires_at, max_downloads |-> d.max_downloads,
     download_count |-> 0, password_hash |-> d.password_hash,
     requires_auth |-> d.requires_auth, allowed_email |-> None,
     is_active |-> TRUE]

\* the ShareLink row create_share_link inserts
ShareLinkRow(d) ==
    [id |-> Cardinality(DOMAIN db) + 1,
     file_id |-> d.file_id, created_by_id |-> Some(d.created_by),
     expires_at |-> d.expires_at, max_downloads |-> d.max_downloads,
     download_count |-> 0, password_hash |-> d.password_hash,
     requires_auth |-> d.requires_auth, allowed_email |-> d.allowed_email,
     is_active |-> TRUE]

CreateBegin_OwnerFirst(p, u, f, body) ==
    /\ Dispatch(p)
    /\ get_current_user(u) = "ok"
    /\ LET r == [NoReq EXCEPT !.op = "create", !.user = Some(u),
                              !.file = Some(f)] IN
       IF ~ShareLinkCreateValid(body)
           THEN Finish(p, [r EXCEPT !.result = "422", !.file = None])
       ELSE IF FileOwner(f) # u /\ ~IsAdmin(u)
           THEN Finish(p, [r EXCEPT !.result = "403"])
       ELSE IF IsNone(FindFile(f))
           THEN Finish(p, [r EXCEPT !.result = "404"])
       ELSE /\ Tokens \ (DOMAIN redis \cup DOMAIN db \cup Reserved) # {}
            /\ pc' = [pc EXCEPT ![p] = "c_set"]
            /\ req' = [req EXCEPT ![p] =
                 [r EXCEPT !.token = FreshToken, !.body = Some(body)]]
    /\ UNCHANGED << now, redis, db, workers, users, deactivated, files, perms, rate, audit, served, recorded, revoked >>

\* get_current_user, request validation, file lookup, ownership check,
\* token; file is link_data.file_id, and file.id once the row is found
CreateBegin(p, u, f, body) ==
    /\ Dispatch(p)
    /\ get_current_user(u) = "ok"
    /\ LET r == [NoReq EXCEPT !.op = "create", !.user = Some(u),
                              !.file = Some(f)] IN
       IF ~ShareLinkCreateValid(body)
           THEN Finish(p, [r EXCEPT !.result = "422", !.file = None])
       ELSE IF IsNone(FindFile(f))
           THEN Finish(p, [r EXCEPT !.result = "404"])
       ELSE IF FileOwner(f) # u /\ ~IsAdmin(u)
           THEN Finish(p, [r EXCEPT !.result = "403"])
       ELSE /\ Tokens \ (DOMAIN redis \cup DOMAIN db \cup Reserved) # {}
            /\ pc' = [pc EXCEPT ![p] = "c_set"]
            /\ req' = [req EXCEPT ![p] =
                 [r EXCEPT !.token = FreshToken, !.body = Some(body)]]
    /\ UNCHANGED << now, redis, db, workers, users, deactivated, files, perms, rate, audit, served, recorded, revoked >>

\* expiry, password hash, redis_data, then
\* self.redis.set_with_expiry(redis_key, redis_data, expiry_seconds)
CreateSet(p) ==
    /\ pc[p] = "c_set"
    /\ LET data == RedisData(req[p].file[1], req[p].user[1], req[p].body[1], now) IN
       /\ redis' = RedisSetex(req[p].token, data, ExpirySeconds(req[p].body[1]))
       /\ req' = [req EXCEPT ![p].data = Some(data), ![p].t0 = now,
                              ![p].ttl = ExpirySeconds(req[p].body[1])]
    /\ pc' = [pc EXCEPT ![p] = "c_db"]
    /\ UNCHANGED << now, db, workers, users, deactivated, files, perms, rate, audit, served, recorded, revoked >>

\* self.db.add(share_link); self.db.commit(); audit; return
CreateCommit(p) ==
    /\ pc[p] = "c_db"
    /\ db' = Put(db, req[p].token, ShareLinkRow(req[p].data[1]))
    /\ audit' = AuditLog("SHARE_CREATE", req[p].user, ShareLinkRow(req[p].data[1]).id)
    /\ Finish(p, [req[p] EXCEPT !.result = "201"])
    /\ UNCHANGED << now, redis, workers, users, deactivated, files, perms, rate, served, recorded, revoked >>

(* ------------------------- download_via_share_link --------------------- *)

FileLocator_Current(data) ==
    [file_id |-> data.file_id, filename |-> files[data.file_id].filename,
     content_type |-> files[data.file_id].content_type,
     s3_key |-> files[data.file_id].s3_key]

\* the dictionary download_via_share_link returns, read from the entry it
\* validated
FileLocator(data) ==
    [file_id |-> data.file_id, filename |-> data.filename,
     content_type |-> data.content_type, s3_key |-> data.s3_key]

DownloadBegin_LogDenied(p, t, password, user) ==
    /\ Dispatch(p)
    /\ IF IsNone(user) THEN TRUE ELSE user[1] \in users
    /\ t \in Presentable
    /\ served[t] < MaxCount
    /\ LET r == [NoReq EXCEPT !.op = "download", !.token = t, !.user = user,
                              !.password = password, !.late = t \in revoked,
                              !.gone = t \in DOMAIN db /\ IsNone(RedisGet(t))]
           data == validate_share_link(t)
       IN
       IF IsNone(data)
           THEN Finish(p, [r EXCEPT !.result = "404"]) /\ UNCHANGED audit
       ELSE IF access_check(data[1], password, user) # "ok"
           THEN /\ Finish(p, [r EXCEPT !.result = access_check(data[1], password, user)])
                /\ audit' = AuditLog("SHARE_ACCESS", user, data[1].file_id)
       ELSE /\ pc' = [pc EXCEPT ![p] = "d_inc_get"]
            /\ req' = [req EXCEPT ![p] =
                            [r EXCEPT !.file = Some(data[1].file_id),
                                      !.locator = Some(FileLocator(data[1]))]]
            /\ UNCHANGED audit
    /\ UNCHANGED << now, redis, db, workers, users, deactivated, files, perms, rate, served, recorded, revoked >>

\* validate_share_link, then the password, authentication and email checks
DownloadBegin(p, t, password, user) ==
    /\ Dispatch(p)
    /\ IF IsNone(user) THEN TRUE ELSE user[1] \in users
    /\ t \in Presentable
    /\ served[t] < MaxCount
    /\ LET r == [NoReq EXCEPT !.op = "download", !.token = t, !.user = user,
                              !.password = password, !.late = t \in revoked,
                              !.gone = t \in DOMAIN db /\ IsNone(RedisGet(t))]
           data == validate_share_link(t)
       IN
       IF IsNone(data) THEN Finish(p, [r EXCEPT !.result = "404"])
       ELSE IF access_check(data[1], password, user) # "ok"
           THEN Finish(p, [r EXCEPT !.result = access_check(data[1], password, user)])
       ELSE /\ pc' = [pc EXCEPT ![p] = "d_inc_get"]
            /\ req' = [req EXCEPT ![p] =
                            [r EXCEPT !.file = Some(data[1].file_id),
                                      !.locator = Some(FileLocator(data[1]))]]
    /\ UNCHANGED << now, redis, db, workers, users, deactivated, files, perms, rate, audit, served, recorded, revoked >>

\* increment_download_count: data = self.redis.get(redis_key)
IncGet(p) ==
    /\ pc[p] = "d_inc_get"
    /\ IF IsNone(RedisGet(req[p].token))
           THEN /\ pc' = [pc EXCEPT ![p] = "d_audit"]
                /\ req' = [req EXCEPT ![p].inc_ok = FALSE]
           ELSE /\ pc' = [pc EXCEPT ![p] = "d_inc_ttl"]
                /\ req' = [req EXCEPT ![p].data = RedisGet(req[p].token)]
    /\ UNCHANGED << now, redis, db, workers, users, deactivated, files, perms, rate, audit, served, recorded, revoked >>

\* increment_download_count: ttl = self.redis.get_ttl(redis_key)
IncTtl(p) ==
    /\ pc[p] = "d_inc_ttl"
    /\ IF RedisTtl(req[p].token) <= 0
           THEN /\ pc' = [pc EXCEPT ![p] = "d_audit"]
                /\ req' = [req EXCEPT ![p].inc_ok = FALSE, ![p].data = None]
           ELSE /\ pc' = [pc EXCEPT ![p] = "d_inc_set"]
                /\ req' = [req EXCEPT ![p].ttl = RedisTtl(req[p].token)]
    /\ UNCHANGED << now, redis, db, workers, users, deactivated, files, perms, rate, audit, served, recorded, revoked >>

\* data["download_count"] + 1 of the dictionary read by IncGet
Incremented(data) == [data EXCEPT !.download_count = data.download_count + 1]

\* increment_download_count: self.redis.set_with_expiry(redis_key, data, ttl)
IncSet(p) ==
    /\ pc[p] = "d_inc_set"
    /\ redis' = RedisSetex(req[p].token, Incremented(req[p].data[1]), req[p].ttl)
    /\ pc' = [pc EXCEPT ![p] = "d_inc_dbq"]
    /\ req' = [req EXCEPT ![p].data = None, ![p].ttl = 0]
    /\ UNCHANGED << now, db, workers, users, deactivated, files, perms, rate, audit, served, recorded, revoked >>

\* increment_download_count: db_link = self.db.query(ShareLink)...first()
IncDbQuery(p) ==
    /\ pc[p] = "d_inc_dbq"
    /\ IF req[p].token \in DOMAIN db
           THEN /\ pc' = [pc EXCEPT ![p] = "d_inc_dbc"]
                /\ req' = [req EXCEPT ![p].dbcount = db[req[p].token].download_count]
                /\ UNCHANGED recorded
           ELSE /\ pc' = [pc EXCEPT ![p] = "d_audit"]
                /\ req' = [req EXCEPT ![p].inc_ok = TRUE]
                /\ recorded' = [recorded EXCEPT ![req[p].token] = @ + 1]
    /\ UNCHANGED << now, redis, db, workers, users, deactivated, files, perms, rate, audit, served, revoked >>

\* increment_download_count: db_link.download_count += 1; self.db.commit()
IncDbCommit(p) ==
    /\ pc[p] = "d_inc_dbc"
    /\ db' = [db EXCEPT ![req[p].token].download_count = req[p].dbcount + 1]
    /\ pc' = [pc EXCEPT ![p] = "d_audit"]
    /\ req' = [req EXCEPT ![p].inc_ok = TRUE, ![p].dbcount = 0]
    /\ recorded' = [recorded EXCEPT ![req[p].token] = @ + 1]
    /\ UNCHANGED << now, redis, workers, users, deactivated, files, perms, rate, audit, served, revoked >>

\* the value of increment_download_count is dropped; audit; return the
\* file locator
DownloadFinish(p) ==
    /\ pc[p] = "d_audit"
    /\ audit' = AuditLog("SHARE_ACCESS", req[p].user, req[p].file[1])
    /\ Finish(p, [req[p] EXCEPT !.result = "200"])
    /\ served' = [served EXCEPT ![req[p].token] = @ + 1]
    /\ UNCHANGED << now, redis, db, workers, users, deactivated, files, perms, rate, recorded, revoked >>

(* --------------------------- get_share_link_info ----------------------- *)

InfoRequest(p, t) ==
    /\ Dispatch(p)
    /\ t \in Presentable
    /\ Finish(p, [NoReq EXCEPT !.op = "info", !.token = t, !.late = t \in revoked,
                               !.gone = t \in DOMAIN db /\ IsNone(RedisGet(t)),
                               !.result = get_share_link_info(t).status,
                               !.info = get_share_link_info(t).info])
    /\ UNCHANGED << now, redis, db, workers, users, deactivated, files, perms, rate, audit, served, recorded, revoked >>

(* ----------------------------- revoke_share_link ----------------------- *)

RevokeBegin_RejectInactive(p, t, u) ==
    /\ Dispatch(p)
    /\ get_current_user(u) = "ok"
    /\ t \in Presentable
    /\ AuditCount("SHARE_REVOKE") < MaxRevokes
    /\ LET r == [NoReq EXCEPT !.op = "revoke", !.token = t, !.user = Some(u)] IN
       IF t \notin DOMAIN db \/ ~db[t].is_active
           THEN Finish(p, [r EXCEPT !.result = "404"])
       ELSE IF db[t].created_by_id # Some(u) /\ ~IsAdmin(u)
           THEN Finish(p, [r EXCEPT !.result = "403"])
       ELSE /\ pc' = [pc EXCEPT ![p] = "r_del"]
            /\ req' = [req EXCEPT ![p] = r]
    /\ UNCHANGED << now, redis, db, workers, users, deactivated, files, perms, rate, audit, served, recorded, revoked >>

RevokeBegin_OrphanOpen(p, t, u) ==
    /\ Dispatch(p)
    /\ get_current_user(u) = "ok"
    /\ t \in Presentable
    /\ AuditCount("SHARE_REVOKE") < MaxRevokes
    /\ LET r == [NoReq EXCEPT !.op = "revoke", !.token = t, !.user = Some(u)] IN
       IF t \notin DOMAIN db THEN Finish(p, [r EXCEPT !.result = "404"])
       ELSE IF db[t].created_by_id # None /\ db[t].created_by_id # Some(u)
                /\ ~IsAdmin(u)
           THEN Finish(p, [r EXCEPT !.result = "403"])
       ELSE /\ pc' = [pc EXCEPT ![p] = "r_del"]
            /\ req' = [req EXCEPT ![p] = r]
    /\ UNCHANGED << now, redis, db, workers, users, deactivated, files, perms, rate, audit, served, recorded, revoked >>

\* get_current_user, then the ownership check on the durable row
RevokeBegin(p, t, u) ==
    /\ Dispatch(p)
    /\ get_current_user(u) = "ok"
    /\ t \in Presentable
    /\ AuditCount("SHARE_REVOKE") < MaxRevokes
    /\ LET r == [NoReq EXCEPT !.op = "revoke", !.token = t, !.user = Some(u)] IN
       IF t \notin DOMAIN db THEN Finish(p, [r EXCEPT !.result = "404"])
       ELSE IF db[t].created_by_id # Some(u) /\ ~IsAdmin(u)
           THEN Finish(p, [r EXCEPT !.result = "403"])
       ELSE /\ pc' = [pc EXCEPT ![p] = "r_del"]
            /\ req' = [req EXCEPT ![p] = r]
    /\ UNCHANGED << now, redis, db, workers, users, deactivated, files, perms, rate, audit, served, recorded, revoked >>

\* self.redis.delete(redis_key)
RevokeDelete(p) ==
    /\ pc[p] = "r_del"
    /\ redis' = RedisDelete(req[p].token)
    /\ pc' = [pc EXCEPT ![p] = "r_db"]
    /\ UNCHANGED << now, db, workers, users, deactivated, files, perms, rate, audit, req, served, recorded, revoked >>

\* db_link.is_active = False; self.db.commit(); audit; return True
RevokeCommit(p) ==
    /\ pc[p] = "r_db"
    /\ db' = [db EXCEPT ![req[p].token].is_active = FALSE]
    /\ audit' = AuditLog("SHARE_REVOKE", req[p].user, db[req[p].token].id)
    /\ revoked' = revoked \cup {req[p].token}
    /\ Finish(p, [req[p] EXCEPT !.result = "200"])
    /\ UNCHANGED << now, redis, workers, users, deactivated, files, perms, rate, served, recorded >>

(* ------------------------------- responses ----------------------------- *)

\* the response has been sent; the worker takes the next request
Return(p) ==
    /\ pc[p] = "done"
    /\ pc' = [pc EXCEPT ![p] = "idle"]
    /\ req' = [req EXCEPT ![p] = NoReq]
    /\ UNCHANGED << now, redis, db, workers, users, deactivated, files, perms, rate, audit, served, recorded, revoked >>

\* the steps of the handlers that follow the first one
Steps(p) ==
    \/ CreateSet(p)
    \/ CreateCommit(p)
    \/ IncGet(p)
    \/ IncTtl(p)
    \/ IncSet(p)
    \/ IncDbQuery(p)
    \/ IncDbCommit(p)
    \/ DownloadFinish(p)
    \/ RevokeDelete(p)
    \/ RevokeCommit(p)
    \/ Return(p)

\* request bodies: every lifetime on an open link without quota, every quota
\* on an open one-minute link, and every access policy on a
\* one-minute link without quota
CreateBodies ==
    [expiry_minutes : ExpiryInputs, max_downloads : {None},
     password : {None}, requires_auth : {FALSE}, allowed_email : {None}]
    \cup
    [expiry_minutes : {1}, max_downloads : MaxDownloadsInputs,
     password : {None}, requires_auth : {FALSE}, allowed_email : {None}]
    \cup
    [expiry_minutes : {1}, max_downloads : {None},
     password : PasswordInputs, requires_auth : BOOLEAN,
     allowed_email : AllowedEmailInputs]

\* one request at a time, every input
NextSeq ==
    \/ Tick
    \/ \E p \in Procs, u \in UserIds, f \in FileIds \cup {3}, body \in CreateBodies :
           CreateBegin(p, u, f, body)
    \/ \E p \in Procs, t \in Tokens, pw \in SuppliedPasswords, c \in Callers :
           DownloadBegin(p, t, pw, c)
    \/ \E p \in Procs, t \in Tokens : InfoRequest(p, t)
    \/ \E p \in Procs, t \in Tokens, u \in UserIds : RevokeBegin(p, t, u)
    \/ \E p \in Procs : Steps(p)

SpecSeq == InitSeq /\ [][NextSeq]_vars

\* request bodies of the concurrent workload: open one-minute links with
\* and without a quota, and one malformed body
OpenBodies ==
    [expiry_minutes : {0, 1}, max_downloads : {None, Some(1), Some(2)},
     password : {None}, requires_auth : {FALSE}, allowed_email : {None}]

\* requests of several workers interleaved: the owner creates, anonymous
\* callers download, the owner and another user revoke
Next ==
    \/ Tick
    \/ \E p \in Procs, body \in OpenBodies : CreateBegin(p, 1, 1, body)
    \/ \E p \in Procs, t \in Tokens : DownloadBegin(p, t, None, None)
    \/ \E p \in Procs, t \in Tokens : InfoRequest(p, t)
    \/ \E p \in Procs, t \in Tokens, u \in {1, 2} : RevokeBegin(p, t, u)
    \/ \E p \in Procs : Steps(p)

Spec == Init /\ [][Next]_vars

(* --------------------------- failing store calls ----------------------- *)

\* set_with_expiry catches the Redis error and returns False: create raises
\* the 500 "Failed to create share link" and nothing has been written
CreateSetFail(p) ==
    /\ pc[p] = "c_set"
    /\ Finish(p, [req[p] EXCEPT !.result = "500", !.fault = "redis_set"])
    /\ UNCHANGED << now, redis, db, workers, users, deactivated, files, perms, rate, audit, served, recorded, revoked >>

\* self.db.commit() of the insert raises: the exception leaves
\* create_share_link, which has no handler around it
CreateCommitFail(p) ==
    /\ pc[p] = "c_db"
    /\ Finish(p, [req[p] EXCEPT !.result = "500", !.fault = "db_insert"])
    /\ UNCHANGED << now, redis, db, workers, users, deactivated, files, perms, rate, audit, served, recorded, revoked >>

\* RedisClient.delete catches the Redis error and returns False;
\* revoke_share_link does not look at the value and goes on
RevokeDeleteFail(p) ==
    /\ pc[p] = "r_del"
    /\ pc' = [pc EXCEPT ![p] = "r_db"]
    /\ req' = [req EXCEPT ![p].fault = "redis_delete"]
    /\ UNCHANGED << now, redis, db, workers, users, deactivated, files, perms, rate, audit, served, recorded, revoked >>

\* self.db.commit() of the counter update raises: the exception leaves
\* increment_download_count and download_via_share_link; no more updates
\* fail once the fast-store count has passed MaxCount
IncDbCommitFail(p) ==
    /\ pc[p] = "d_inc_dbc"
    /\ req[p].token \in DOMAIN redis
           => redis[req[p].token].value.download_count <= MaxCount
    /\ Finish(p, [req[p] EXCEPT !.result = "500", !.fault = "db_update",
                                 !.dbcount = 0])
    /\ UNCHANGED << now, redis, db, workers, users, deactivated, files, perms, rate, audit, served, recorded, revoked >>

Faults(p) ==
    \/ CreateSetFail(p)
    \/ CreateCommitFail(p)
    \/ RevokeDeleteFail(p)
    \/ IncDbCommitFail(p)

(* ------------------------------- users table --------------------------- *)

\* audit_logs.user_id: ForeignKey("users.id", ondelete="SET NULL")
AuditWithoutUser(u) ==
    LET Cut(rec) == IF rec.user_id = Some(u) THEN [rec EXCEPT !.user_id = None]
                    ELSE rec
    IN [r \in {Cut(x) : x \in DOMAIN audit} |->
            audit[CHOOSE x \in DOMAIN audit : Cut(x) = r]]

\* UserService.hard_delete_user: the row is removed, unless files still
\* reference it (files.owner_id is not nullable); the creator reference of
\* the user's share links is set to NULL by the foreign key
HardDeleteUser(u) ==
    /\ Cardinality(InFlight) < workers
    /\ u \in users
    /\ \A f \in FileIds : FileOwner(f) # u
    /\ users' = users \ {u}
    /\ db' = [t \in DOMAIN db |->
                 IF db[t].created_by_id = Some(u)
                 THEN [db[t] EXCEPT !.created_by_id = None] ELSE db[t]]
    /\ deactivated' = deactivated \ {u}
    /\ audit' = AuditWithoutUser(u)
    /\ UNCHANGED << now, redis, workers, files, perms, rate, pc, req, served, recorded,
                   revoked >>

\* request bodies of the workload with failures: open one-minute links with
\* and without a quota
FaultBodies ==
    [expiry_minutes : {1}, max_downloads : {None, Some(2)},
     password : {None}, requires_auth : {FALSE}, allowed_email : {None}]

\* one request at a time; store calls may fail and the first administrator
\* may be removed
NextFault ==
    \/ Tick
    \/ \E p \in Procs, u \in Users, f \in FileIds, body \in FaultBodies :
           CreateBegin(p, u, f, body)
    \/ \E p \in Procs, t \in Tokens : DownloadBegin(p, t, None, None)
    \/ \E p \in Procs, t \in Tokens : InfoRequest(p, t)
    \/ \E p \in Procs, t \in Tokens, u \in Users : RevokeBegin(p, t, u)
    \/ \E u \in {3} : HardDeleteUser(u)
    \/ \E p \in Procs : Steps(p)
    \/ \E p \in Procs : Faults(p)

SpecFault == InitSeq /\ [][NextFault]_vars

(* ------------------------------ creates only --------------------------- *)

\* request bodies at the limits of the lifetime and of the quota, and every
\* access policy on a one-minute link
BoundaryBodies ==
    [expiry_minutes : {0, 1, MaxExpiryMinutes, MaxExpiryMinutes + 1},
     max_downloads : {None, Some(0), Some(1)},
     password : {None}, requires_auth : {FALSE}, allowed_email : {None}]
    \cup
    [expiry_minutes : {1}, max_downloads : {None},
     password : PasswordInputs, requires_auth : BOOLEAN,
     allowed_email : AllowedEmailInputs]

\* one create_share_link at a time, every requester, file and body
NextCreate ==
    \/ Tick
    \/ \E p \in Procs, u \in UserIds, f \in FileIds \cup {3}, body \in BoundaryBodies :
           CreateBegin(p, u, f, body)
    \/ \E p \in Procs : CreateSet(p)
    \/ \E p \in Procs : CreateCommit(p)
    \/ \E p \in Procs : Return(p)

SpecCreate == InitSeq /\ [][NextCreate]_vars

(* ------------------------- get_user_share_links ------------------------ *)

\* limit: int = 100, the default the list endpoint calls with
ListLimit == 100
\* the most links the creator of the listing workload has made
MaxLinks == 101

\* the k-th token uuid4 has produced
LinkToken(k) == "t" \o ToString(k)

\* the subsets of k rows of a set of share_links rows, by row id
RECURSIVE KSubsets(_, _)
KSubsets(S, k) ==
    IF k = 0 THEN {{}}
    ELSE UNION {{T \cup {x} : T \in KSubsets({y \in S : db[y].id < db[x].id}, k - 1)}
                   : x \in S}

\* ShareLinkService.get_user_share_links(user_id) with skip = 0 and
\* limit = 100: the rows of the creator that are active, cut to the limit.
\* The query has no ORDER BY, so which rows fall beyond the limit is the
\* database's choice: every result the query can return
get_user_share_links(u) ==
    LET match == {t \in DOMAIN db : db[t].created_by_id = Some(u) /\ db[t].is_active}
        excess == IF Cardinality(match) > ListLimit
                  THEN Cardinality(match) - ListLimit ELSE 0
    IN {match \ D : D \in KSubsets(match, excess)}

\* GET /share/: get_current_user, then the list of the caller's links
ListRequest(p, u) ==
    /\ Dispatch(p)
    /\ get_current_user(u) = "ok"
    /\ \E links \in get_user_share_links(u) :
           Finish(p, [NoReq EXCEPT !.op = "list", !.user = Some(u),
                                   !.result = "200", !.info = Some(links)])
    /\ UNCHANGED << now, redis, db, workers, users, deactivated, files, perms, rate, audit, served, recorded, revoked >>

\* the open one-minute link number k, created at time 0 by user u
ListedBody ==
    [expiry_minutes |-> 1, max_downloads |-> None, password |-> None,
     requires_auth |-> FALSE, allowed_email |-> None]
ListedRow(k, u) ==
    [id |-> k, file_id |-> 1, created_by_id |-> Some(u),
     expires_at |-> ExpirySeconds(ListedBody), max_downloads |-> None,
     download_count |-> 0, password_hash |-> None, requires_auth |-> FALSE,
     allowed_email |-> None, is_active |-> TRUE]
ListedCreator(k, first) == IF k = 1 THEN first ELSE 1

\* the state after n creates at time 0, one request at a time: the first
\* link made by the owner or by the administrator, the others by the owner
InitList ==
    \E n \in 0..MaxLinks, first \in {1, 3} :
        /\ now = 0
        /\ files = FileRows
        /\ db = [t \in {LinkToken(k) : k \in 1..n} |->
                    LET k == CHOOSE i \in 1..n : LinkToken(i) = t
                    IN ListedRow(k, ListedCreator(k, first))]
        /\ redis = [t \in {LinkToken(k) : k \in 1..n} |->
                    LET k == CHOOSE i \in 1..n : LinkToken(i) = t
                    IN [value |-> RedisData(1, ListedCreator(k, first), ListedBody, 0),
                        expire_at |-> ExpirySeconds(ListedBody)]]
        /\ audit = [r \in {[action |-> "SHARE_CREATE",
                             user_id |-> Some(ListedCreator(k, first)),
                             user_email |-> Some(UserEmail(ListedCreator(k, first))),
                             resource_type |-> "share_link",
                             resource_id |-> k] : k \in 1..n} |-> 1]
        /\ users = Users
        /\ deactivated = {}
        /\ perms = [rows |-> << >>, last_id |-> 0]
        /\ rate = << >>
        /\ workers = 1
        /\ pc = [p \in Procs |-> "idle"]
        /\ req = [p \in Procs |-> NoReq]
        /\ served = [t \in Tokens |-> 0]
        /\ recorded = [t \in Tokens |-> 0]
        /\ revoked = {}

\* one request at a time: lists, revocations of the first link, expiry
NextList ==
    \/ Tick
    \/ \E p \in Procs, u \in UserIds : ListRequest(p, u)
    \/ \E p \in Procs, t \in Tokens, u \in UserIds : RevokeBegin(p, t, u)
    \/ \E p \in Procs : RevokeDelete(p)
    \/ \E p \in Procs : RevokeCommit(p)
    \/ \E p \in Procs : Return(p)

SpecList == InitList /\ [][NextList]_vars

(* ------------------------- files under share links -------------------- *)

MaxUpdates == 1
NewFilenames == {"c.txt"}

\* FileService.delete_file: the row is kept and flagged, the object in the
\* bucket is kept, one FILE_DELETE record
DeleteFile(u, f) ==
    /\ Cardinality(InFlight) < workers
    /\ get_current_user(u) = "ok"
    /\ FindFile(f) # None
    /\ FileOwner(f) = u \/ IsAdmin(u)
    /\ files' = [files EXCEPT ![f].is_deleted = TRUE]
    /\ audit' = AuditEntry("FILE_DELETE", Some(u), "file", f)
    /\ UNCHANGED << now, redis, db, workers, users, deactivated, perms, rate, pc, req, served, recorded,
                   revoked >>

\* FileService.update_file with a new filename, one FILE_UPDATE record
UpdateFile(u, f, filename) ==
    /\ Cardinality(InFlight) < workers
    /\ AuditCount("FILE_UPDATE") < MaxUpdates
    /\ get_current_user(u) = "ok"
    /\ FindFile(f) # None
    /\ FileOwner(f) = u \/ IsAdmin(u)
    /\ files' = [files EXCEPT ![f].filename = filename]
    /\ audit' = AuditEntry("FILE_UPDATE", Some(u), "file", f)
    /\ UNCHANGED << now, redis, db, workers, users, deactivated, perms, rate, pc, req, served, recorded,
                   revoked >>

\* both files are live at the start
InitFile ==
    /\ InitCommon
    /\ files = [f \in FileIds |-> [FileRows[f] EXCEPT !.is_deleted = FALSE]]
    /\ workers = 1

\* open one-minute links with and without a quota
FileBodies ==
    [expiry_minutes : {1}, max_downloads : {None, Some(2)},
     password : {None}, requires_auth : {FALSE}, allowed_email : {None}]

\* one request at a time: the owner shares, renames and deletes the files,
\* anyone downloads
NextFile ==
    \/ Tick
    \/ \E p \in Procs, f \in FileIds, body \in FileBodies :
           CreateBegin(p, 1, f, body)
    \/ \E p \in Procs, t \in Tokens, user \in {None, Some(2)} :
           DownloadBegin(p, t, None, user)
    \/ \E p \in Procs, t \in Tokens : InfoRequest(p, t)
    \/ \E p \in Procs, t \in Tokens : RevokeBegin(p, t, 1)
    \/ \E f \in FileIds : DeleteFile(1, f)
    \/ \E f \in FileIds, filename \in NewFilenames : UpdateFile(1, f, filename)
    \/ \E p \in Procs : Steps(p)

SpecFile == InitFile /\ [][NextFile]_vars

(* --------------------------- deactivated users ------------------------- *)

MaxLogins == 1

\* deactivate_user: require_admin, not the administrator's own account,
\* then UserService.delete_user sets is_active to False
DeactivateUser(a, u) ==
    /\ Cardinality(InFlight) < workers
    /\ get_current_user(a) = "ok" /\ IsAdmin(a)
    /\ u # a
    /\ u \in users
    /\ deactivated' = deactivated \cup {u}
    /\ UNCHANGED << now, redis, db, workers, users, files, perms, rate, audit, pc, req, served,
                   recorded, revoked >>

\* a request with the bearer token of a user that get_current_user refuses
AuthRefused(p, op, u) ==
    /\ Dispatch(p)
    /\ get_current_user(u) # "ok"
    /\ Finish(p, [NoReq EXCEPT !.op = op, !.user = Some(u),
                               !.result = get_current_user(u)])
    /\ UNCHANGED << now, redis, db, workers, users, deactivated, files, perms, rate, audit, served,
                   recorded, revoked >>

\* AuthService.login with the right password: 403 for a deactivated
\* account, otherwise one LOGIN_SUCCESS record and the tokens
Login(p, u) ==
    /\ Dispatch(p)
    /\ u \in users
    /\ AuditCount("LOGIN_SUCCESS") < MaxLogins
    /\ IF u \in deactivated
       THEN /\ Finish(p, [NoReq EXCEPT !.op = "login", !.user = Some(u),
                                       !.result = "403_deactivated"])
            /\ UNCHANGED audit
       ELSE /\ Finish(p, [NoReq EXCEPT !.op = "login", !.user = Some(u),
                                       !.result = "200"])
            /\ audit' = AuditEntry("LOGIN_SUCCESS", Some(u), "user", u)
    /\ UNCHANGED << now, redis, db, workers, users, deactivated, files, perms, rate, served, recorded,
                   revoked >>

\* AuthService.refresh_token with a refresh token of user u: 404 without
\* the row, 403 for a deactivated account, otherwise one TOKEN_REFRESH
\* record (resource_id NULL, written 0) and new tokens
RefreshToken(p, u) ==
    /\ Dispatch(p)
    /\ AuditCount("TOKEN_REFRESH") < MaxLogins
    /\ IF u \notin users \/ u \in deactivated
       THEN /\ Finish(p, [NoReq EXCEPT !.op = "refresh", !.user = Some(u),
                                       !.result = IF u \notin users THEN "404"
                                                  ELSE "403_deactivated"])
            /\ UNCHANGED audit
       ELSE /\ Finish(p, [NoReq EXCEPT !.op = "refresh", !.user = Some(u),
                                       !.result = "200"])
            /\ audit' = AuditEntry("TOKEN_REFRESH", Some(u), "auth", 0)
    /\ UNCHANGED << now, redis, db, workers, users, deactivated, files, perms, rate, served, recorded,
                   revoked >>

\* one-minute links open to anyone, to authenticated callers, and to one
\* email address
UserBodies ==
    [expiry_minutes : {1}, max_downloads : {None}, password : {None},
     requires_auth : BOOLEAN, allowed_email : {None, Some(UserEmail(2))}]

\* one request at a time: the owner shares, users 1 and 2 and anonymous
\* callers use the links and log in, the administrator deactivates users
NextUser ==
    \/ Tick
    \/ \E p \in Procs, body \in UserBodies : CreateBegin(p, 1, 1, body)
    \/ \E p \in Procs, t \in Tokens, user \in {None, Some(1), Some(2)} :
           DownloadBegin(p, t, None, user)
    \/ \E p \in Procs, t \in Tokens, u \in {1, 2} : RevokeBegin(p, t, u)
    \/ \E p \in Procs, u \in {1, 2} : ListRequest(p, u)
    \/ \E p \in Procs, op \in {"create", "revoke", "list"}, u \in {1, 2} :
           AuthRefused(p, op, u)
    \/ \E p \in Procs, u \in {1, 2} : Login(p, u)
    \/ \E p \in Procs, u \in {1, 2} : RefreshToken(p, u)
    \/ \E u \in {1, 2} : DeactivateUser(3, u)
    \/ \E p \in Procs : Steps(p)

SpecUser == InitSeq /\ [][NextUser]_vars

(* ---------------------------- file permissions ------------------------ *)

MaxPerms == 2
PermissionLevels == {"read", "write"}

\* FilePermission rows of the pair (file, user)
PermissionsOf(f, u) ==
    {id \in DOMAIN perms.rows :
        perms.rows[id].file_id = f /\ perms.rows[id].user_id = u}

\* grant_permission up to its query: the file and ownership checks, then
\* existing = query(FilePermission).filter(file_id, user_id).first()
GrantBegin(p, u, f, target, level) ==
    /\ Dispatch(p)
    /\ get_current_user(u) = "ok"
    /\ LET r == [NoReq EXCEPT !.op = "grant", !.user = Some(u), !.file = Some(f),
                              !.dbcount = target, !.level = level]
       IN
       IF IsNone(FindFile(f)) THEN Finish(p, [r EXCEPT !.result = "404"])
       ELSE IF FileOwner(f) # u /\ ~IsAdmin(u)
           THEN Finish(p, [r EXCEPT !.result = "403"])
       ELSE \E e \in IF PermissionsOf(f, target) = {} THEN {None}
                      ELSE {Some(id) : id \in PermissionsOf(f, target)} :
                /\ pc' = [pc EXCEPT ![p] = "g_commit"]
                /\ req' = [req EXCEPT ![p] = [r EXCEPT !.existing = e]]
    /\ UNCHANGED << now, redis, db, workers, users, deactivated, files, perms, rate, audit,
                   served, recorded, revoked >>

\* the existing row is updated and committed (an update that matches no
\* row fails the request), or a new row is added, committed and logged
GrantCommit(p) ==
    /\ pc[p] = "g_commit"
    /\ IF req[p].existing # None
       THEN IF req[p].existing[1] \in DOMAIN perms.rows
            THEN /\ perms' = [perms EXCEPT
                                 !.rows[req[p].existing[1]].permission_level = req[p].level]
                 /\ Finish(p, [req[p] EXCEPT !.result = "200"])
                 /\ UNCHANGED audit
            ELSE /\ Finish(p, [req[p] EXCEPT !.result = "500"])
                 /\ UNCHANGED << perms, audit >>
       ELSE /\ perms.last_id < MaxPerms
            /\ perms' = [rows |-> Put(perms.rows, perms.last_id + 1,
                                      [file_id |-> req[p].file[1],
                                       user_id |-> req[p].dbcount,
                                       permission_level |-> req[p].level,
                                       granted_by_id |-> req[p].user[1]]),
                         last_id |-> perms.last_id + 1]
            /\ audit' = AuditEntry("PERMISSION_GRANT", req[p].user, "file_permission",
                                   perms.last_id + 1)
            /\ Finish(p, [req[p] EXCEPT !.result = "200"])
    /\ UNCHANGED << now, redis, db, workers, users, deactivated, files, rate, served,
                   recorded, revoked >>

\* revoke_permission up to its query: .first() returns any one row of the
\* pair
RevokePermissionBegin(p, u, f, target) ==
    /\ Dispatch(p)
    /\ get_current_user(u) = "ok"
    /\ LET r == [NoReq EXCEPT !.op = "revoke_permission", !.user = Some(u),
                              !.file = Some(f), !.dbcount = target]
       IN
       IF IsNone(FindFile(f)) THEN Finish(p, [r EXCEPT !.result = "404"])
       ELSE IF FileOwner(f) # u /\ ~IsAdmin(u)
           THEN Finish(p, [r EXCEPT !.result = "403"])
       ELSE IF PermissionsOf(f, target) = {}
           THEN Finish(p, [r EXCEPT !.result = "404"])
       ELSE \E id \in PermissionsOf(f, target) :
                /\ pc' = [pc EXCEPT ![p] = "rp_commit"]
                /\ req' = [req EXCEPT ![p] = [r EXCEPT !.existing = Some(id)]]
    /\ UNCHANGED << now, redis, db, workers, users, deactivated, files, perms, rate, audit,
                   served, recorded, revoked >>

\* self.db.delete(permission); commit; PERMISSION_REVOKE with the file id
RevokePermissionCommit(p) ==
    /\ pc[p] = "rp_commit"
    /\ perms' = [perms EXCEPT !.rows = Del(perms.rows, req[p].existing[1])]
    /\ audit' = AuditEntry("PERMISSION_REVOKE", req[p].user, "file_permission",
                           req[p].file[1])
    /\ Finish(p, [req[p] EXCEPT !.result = "200"])
    /\ UNCHANGED << now, redis, db, workers, users, deactivated, files, rate, served,
                   recorded, revoked >>

\* the owner grants and revokes user 2's access to file 1, several requests
\* at once
NextPermission ==
    \/ \E p \in Procs, level \in PermissionLevels : GrantBegin(p, 1, 1, 2, level)
    \/ \E p \in Procs : GrantCommit(p)
    \/ \E p \in Procs : RevokePermissionBegin(p, 1, 1, 2)
    \/ \E p \in Procs : RevokePermissionCommit(p)
    \/ \E p \in Procs : Return(p)

SpecPermission == Init /\ [][NextPermission]_vars

(* ------------------------------ rate limiter --------------------------- *)

RequestsPerMinute == 60
WindowSeconds == 60
MaxRequests == 62

\* f"rate_limit:{client_ip}:{request.url.path}" of one client on one path
RateKeys == {"rate_limit:10.0.0.1:/api/v1/auth/login"}

\* RateLimiter.__call__ up to INCR: the counter is created at 1 without
\* time to live, or incremented; a count of 1 goes on to EXPIRE, a larger
\* one is compared with requests_per_minute
RateIncr(p, k) ==
    /\ Dispatch(p)
    /\ k \in DOMAIN rate => rate[k].count < MaxRequests
    /\ LET count == IF k \in DOMAIN rate THEN rate[k].count + 1 ELSE 1
           r == [NoReq EXCEPT !.op = "rate", !.token = k, !.dbcount = count]
       IN
       /\ rate' = IF k \in DOMAIN rate THEN [rate EXCEPT ![k].count = count]
                  ELSE Put(rate, k, [count |-> 1, expire_at |-> None])
       /\ IF count = 1
          THEN pc' = [pc EXCEPT ![p] = "rl_expire"] /\ req' = [req EXCEPT ![p] = r]
          ELSE Finish(p, [r EXCEPT !.result = IF count > RequestsPerMinute
                                              THEN "429" ELSE "ok"])
    /\ UNCHANGED << now, redis, db, workers, users, deactivated, files, perms, audit,
                   served, recorded, revoked >>

\* self.client.expire(key, expiry_seconds); return count
RateExpire(p) ==
    /\ pc[p] = "rl_expire"
    /\ rate' = IF req[p].token \in DOMAIN rate
               THEN [rate EXCEPT ![req[p].token].expire_at = Some(now + WindowSeconds)]
               ELSE rate
    /\ Finish(p, [req[p] EXCEPT !.result = "ok"])
    /\ UNCHANGED << now, redis, db, workers, users, deactivated, files, perms, audit,
                   served, recorded, revoked >>

\* INCR raises: increment returns 0, which is not above the limit
RateIncrFail(p, k) ==
    /\ Dispatch(p)
    /\ Finish(p, [NoReq EXCEPT !.op = "rate", !.token = k, !.fault = "redis_incr",
                               !.result = "ok"])
    /\ UNCHANGED << now, redis, db, workers, users, deactivated, files, perms, rate, audit,
                   served, recorded, revoked >>

\* EXPIRE raises after INCR has created the key: increment returns 0
RateExpireFail(p) ==
    /\ pc[p] = "rl_expire"
    /\ Finish(p, [req[p] EXCEPT !.dbcount = 0, !.fault = "redis_expire",
                                !.result = "ok"])
    /\ UNCHANGED << now, redis, db, workers, users, deactivated, files, perms, rate, audit,
                   served, recorded, revoked >>

\* one client calls a rate-limited endpoint, one request at a time, and
\* store commands may fail
NextRate ==
    \/ Tick
    \/ \E p \in Procs, k \in RateKeys : RateIncr(p, k)
    \/ \E p \in Procs : RateExpire(p)
    \/ \E p \in Procs, k \in RateKeys : RateIncrFail(p, k)
    \/ \E p \in Procs : RateExpireFail(p)
    \/ \E p \in Procs : Return(p)

SpecRate == InitSeq /\ [][NextRate]_vars

(* ------------------------------- properties ---------------------------- *)

\* the quota of a link, from its durable row
HasQuota(t) == t \in DOMAIN db /\ TruthyInt(db[t].max_downloads)
Quota(t) == db[t].max_downloads[1]

\* a worker stands inside increment_download_count for token t
Incrementing(t) ==
    \E p \in Procs :
        /\ pc[p] \in {"d_inc_get", "d_inc_ttl", "d_inc_set", "d_inc_dbq", "d_inc_dbc"}
        /\ req[p].token = t

\* a worker has answered a request of kind op on token t
Answered(p, op, t) == pc[p] = "done" /\ req[p].op = op /\ req[p].token = t

\* C1: under every interleaving of concurrent downloads of one token, the
\* number of downloads served never exceeds the link's maxDownloads.
C1_ServedWithinQuota ==
    \A t \in Tokens : HasQuota(t) => served[t] <= Quota(t)

\* C2: when the increment_download_count calls on a live link have all
\* returned, the fast-store downloadCount equals the number of calls that
\* returned True: no increment is lost.
C2_NoLostIncrement ==
    \A t \in DOMAIN redis :
        ~Incrementing(t) => redis[t].value.download_count = recorded[t]

\* C3: once revoke_share_link has returned for a token, the fast store holds
\* no entry for it, whatever download was in flight, and no download that
\* starts afterwards is served.
C3_RevokeBeatsInFlightDownload ==
    \A t \in revoked :
        /\ t \notin DOMAIN redis
        /\ \A p \in Procs : Answered(p, "download", t) /\ req[p].late
                                => req[p].result # "200"

\* C4: with one request at a time, after revoke_share_link has returned the
\* fast-store entry is absent, the durable row exists with is_active false,
\* and every later validate, info and download of the token fails.
C4_RevokeIsFinal ==
    \A t \in revoked :
        /\ t \notin DOMAIN redis
        /\ t \in DOMAIN db /\ ~db[t].is_active
        /\ IsNone(validate_share_link(t))
        /\ \A p \in Procs :
               req[p].token = t /\ req[p].late /\ req[p].op \in {"download", "info"}
                   => pc[p] = "done" /\ req[p].result = "404" /\ IsNone(req[p].info)

\* a download or an info request that began after the revoke returned has
\* been refused although expires_at has not passed
C4_Witness ==
    \E t \in revoked, p \in Procs :
        /\ Answered(p, "download", t) /\ req[p].late /\ req[p].result = "404"
        /\ now < db[t].expires_at

\* C5: with one request at a time, a link with maxDownloads = N serves at
\* most N downloads; once N have been served the next attempt is denied,
\* whatever time remains before expiry.
C5_QuotaDeniesNextDownload ==
    \A t \in Tokens :
        HasQuota(t) =>
            /\ served[t] <= Quota(t)
            /\ served[t] = Quota(t) =>
                   /\ IsNone(validate_share_link(t))
                   /\ \A p \in Procs :
                          req[p].op = "download" /\ req[p].token = t
                              => pc[p] = "done"

\* the quota is used up, the entry still has time to live, and a further
\* download has been refused
C5_Witness ==
    \E t \in DOMAIN redis, p \in Procs :
        /\ HasQuota(t) /\ served[t] = Quota(t) /\ Quota(t) = 2
        /\ RedisTtl(t) > 0
        /\ Answered(p, "download", t) /\ req[p].result = "404"

\* C6: a download whose increment_download_count returned False (the entry
\* disappeared after validation) is not served.
C6_FailedIncrementNotServed ==
    \A p \in Procs :
        pc[p] = "done" /\ req[p].op = "download" /\ req[p].result = "200"
            => req[p].inc_ok

\* a download of token t has begun on this link
Accessed(t) ==
    \/ served[t] > 0
    \/ \E p \in Procs : req[p].op = "download" /\ req[p].token = t
                           /\ req[p].result # "404"

\* C7: a link that was never accessed is invalid at every instant after
\* createdAt + lifetime (validate and info fail), and no download is served
\* after expires_at.
C7_InvalidAfterLifetime ==
    [][ /\ \A t \in DOMAIN db' :
               (now' > db'[t].expires_at /\ ~Accessed(t)')
                   => /\ IsNone(validate_share_link(t))'
                      /\ get_share_link_info(t)'.status = "404"
        /\ \A t \in DOMAIN db :
               served'[t] > served[t] => now <= db[t].expires_at ]_vars

\* C8: the count rewrite of a download leaves the fast-store expiry instant
\* of the entry where it was: the entry exists and keeps its expiry.
C8_RewriteKeepsExpiry ==
    [][ \A p \in Procs :
            pc[p] = "d_inc_set" /\ pc'[p] = "d_inc_dbq"
                => /\ req[p].token \in DOMAIN redis
                   /\ redis'[req[p].token].expire_at
                          <= redis[req[p].token].expire_at ]_vars

\* C9: after create(maxDownloads = 2) and two served downloads, the third
\* download is denied and info still returns the record with
\* downloadCount = 2 and maxDownloads = 2.
C9_InfoAfterQuota ==
    \A t \in DOMAIN redis :
        (HasQuota(t) /\ Quota(t) = 2 /\ served[t] = 2) =>
            /\ IsNone(validate_share_link(t))
            /\ \A p \in Procs :
                   Answered(p, "info", t) =>
                       /\ req[p].result = "200"
                       /\ req[p].info # None
                       /\ req[p].info[1].download_count = 2
                       /\ req[p].info[1].max_downloads = Some(2)

\* C10: validate of the token of a create that has just returned, performed
\* before the lifetime has run out and before any other request, returns a
\* snapshot whose downloadCount is 0.
C10_ValidateAfterCreate ==
    \A p \in Procs :
        (pc[p] = "done" /\ req[p].op = "create" /\ req[p].result = "201"
             /\ now < req[p].t0 + req[p].body[1].expiry_minutes * SecondsPerMinute)
            => /\ ~IsNone(validate_share_link(req[p].token))
               /\ validate_share_link(req[p].token)[1].download_count = 0

\* a create has returned and its link is valid at that same instant
C10_Witness ==
    \E p \in Procs :
        /\ pc[p] = "done" /\ req[p].op = "create" /\ req[p].result = "201"
        /\ now = req[p].t0
        /\ validate_share_link(req[p].token) = req[p].data

\* C11: the answer of download_via_share_link is the first failing check of
\* the chain validity, password, requiresAuth, allowedEmail: an invalid link
\* is not found; a password link with no password supplied is
\* password_required, with a wrong one invalid_password; requiresAuth
\* without a caller is auth_required before any email check; another
\* caller email is forbidden; otherwise the download goes on, and on a
\* password link only with the password the link was created with.
C11_OrderedAccessChecks ==
    [][ \A p \in Procs :
            (pc[p] = "idle" /\ req'[p].op = "download") =>
                LET t == req'[p].token
                    pw == req'[p].password
                    u == req'[p].user
                    r == req'[p].result
                    d == redis[t].value
                    Valid == /\ t \in DOMAIN redis
                             /\ ~(d.max_downloads # None /\ d.max_downloads[1] # 0
                                    /\ d.download_count >= d.max_downloads[1])
                    PwSet == d.password_hash # None
                    PwRight == pw # None /\ d.password_hash = Some(<< "bcrypt", pw[1] >>)
                    PwPass == PwSet => PwRight
                    AuthPass == d.requires_auth => u # None
                    EmailPass == d.allowed_email # None =>
                                     (u # None /\ Some(UserEmail(u[1])) = d.allowed_email)
                IN  /\ ~Valid => r = "404"
                    /\ Valid /\ PwSet /\ pw = None => r = "401_password_required"
                    /\ Valid /\ PwSet /\ pw # None /\ ~PwRight => r = "401_invalid_password"
                    /\ Valid /\ PwPass /\ ~AuthPass => r = "401_auth_required"
                    /\ Valid /\ PwPass /\ AuthPass /\ ~EmailPass => r = "403_forbidden"
                    /\ Valid /\ PwPass /\ AuthPass /\ EmailPass
                           => pc'[p] = "d_inc_get" /\ r = ""
                    /\ pc'[p] = "d_inc_get" /\ PwSet => pw = Some(db[t].password_hash[1][2]) ]_vars

\* an anonymous caller has been answered auth_required on a link that also
\* restricts the caller's email
C11_Witness ==
    \E p \in Procs :
        /\ pc[p] = "done" /\ req[p].op = "download"
        /\ req[p].result = "401_auth_required" /\ req[p].user = None
        /\ req[p].token \in DOMAIN db
        /\ db[req[p].token].requires_auth
        /\ db[req[p].token].allowed_email # None

\* C12: every token with a live fast-store entry, outside a create still
\* running, has a durable record, also when the durable insert of a create
\* has failed after the fast-store write: a failed create leaves no usable
\* link behind.
C12_LiveEntryHasRecord ==
    \A t \in DOMAIN redis :
        /\ t \notin Reserved => t \in DOMAIN db
        /\ \A p \in Procs :
               (pc[p] = "done" /\ req[p].op = "create" /\ req[p].token = t)
                   => req[p].result = "201"

\* C13: when the fast-store delete of a revoke has failed, revoke does not
\* report success: there is never a token whose revoke returned
\* successfully, whose durable record is inactive, and whose fast-store
\* entry is still present and downloadable.
C13_FailedDeleteNotReported ==
    /\ \A p \in Procs :
           (pc[p] = "done" /\ req[p].op = "revoke" /\ req[p].fault = "redis_delete")
               => req[p].result # "200"
    /\ \A t \in revoked :
           ~(/\ ~db[t].is_active
             /\ t \in DOMAIN redis
             /\ ~IsNone(validate_share_link(t)))

\* a download of token t stands between its validation and its answer
Downloading(t) ==
    \E p \in Procs :
        /\ req[p].op = "download" /\ req[p].token = t
        /\ pc[p] \notin {"idle", "done"}

\* C14: every served download has added exactly one to downloadCount in the
\* durable record and in the fast store, and whenever no download is in
\* flight the durable downloadCount of a live link equals its fast-store
\* downloadCount.
C14_CountsFollowDownloads ==
    \A t \in DOMAIN db :
        ~Downloading(t) =>
            /\ db[t].download_count = served[t]
            /\ t \in DOMAIN redis =>
                   /\ redis[t].value.download_count = served[t]
                   /\ redis[t].value.download_count = db[t].download_count

\* C15: a download whose durable counter update failed after the
\* fast-store count was incremented is still answered with the file
\* locator; the fast-store count keeps its incremented value and the
\* durable count lags behind it.
C15_DurableFailureNotFatal ==
    \A p \in Procs :
        (pc[p] = "done" /\ req[p].op = "download" /\ req[p].fault = "db_update")
            => /\ req[p].result = "200"
               /\ req[p].token \in DOMAIN redis =>
                      redis[req[p].token].value.download_count
                          > db[req[p].token].download_count
\* C16: downloadCount of a link starts at 0 and never decreases, in the
\* fast store and in the durable record, under every interleaving of
\* create, download, info and revoke.
C16_CountNeverDecreases ==
    [][ /\ \A t \in DOMAIN db' \ DOMAIN db :
               /\ db'[t].download_count = 0
               /\ t \in DOMAIN redis' => redis'[t].value.download_count = 0
        /\ \A t \in DOMAIN db \cap DOMAIN db' :
               db'[t].download_count >= db[t].download_count
        /\ \A t \in DOMAIN redis \cap DOMAIN redis' :
               redis'[t].value.download_count >= redis[t].value.download_count ]_vars
\* C17: revocation and expiry are permanent: a durable is_active that is
\* false never becomes true again, a token of an existing link for which
\* validate has found no entry (the link was revoked or has expired) never
\* validates again, and no share-link operation removes a durable record.
C17_TerminalIsPermanent ==
    [][ /\ \A t \in DOMAIN db :
               /\ t \in DOMAIN db'
               /\ ~db[t].is_active => ~db'[t].is_active
        /\ \A p \in Procs :
               (pc[p] = "done" /\ req[p].op \in {"download", "info"} /\ req[p].gone)
                   => IsNone(validate_share_link(req[p].token))' ]_vars
\* the requester of a revoke may revoke the link: creator or administrator
MayRevoke(u, t) == db[t].created_by_id = Some(u) \/ IsAdmin(u)

\* C18: a revoke_share_link of an already revoked link by an authorized
\* requester raises no error and leaves the fast store and the link's
\* durable record as the first revoke left them.
C18_SecondRevokeIsNoOp ==
    [][ \A p \in Procs :
            (/\ req'[p].op = "revoke"
             /\ req'[p].token \in revoked
             /\ MayRevoke(req'[p].user[1], req'[p].token)
             /\ pc'[p] # pc[p])
                => /\ redis' = redis
                   /\ db' = db
                   /\ req'[p].result \in {"", "200"}
                   /\ pc'[p] = "done" => req'[p].result = "200" ]_vars

\* a second revoke of the same link has returned successfully
C18_Witness ==
    \E p \in Procs :
        /\ pc[p] = "done" /\ req[p].op = "revoke" /\ req[p].result = "200"
        /\ AuditCount("SHARE_REVOKE") = 2
        /\ req[p].token \notin DOMAIN redis
        /\ ~db[req[p].token].is_active
\* C19: a revoke is admitted only for the link's creator or an
\* administrator, and for a link whose creator reference is null only for
\* an administrator; a revoke refused as not found (no durable record) or
\* as forbidden changes neither the fast store nor the durable record.
C19_RevokeAuthorization ==
    [][ \A p \in Procs :
            (pc[p] = "idle" /\ req'[p].op = "revoke") =>
                LET t == req'[p].token
                    u == req'[p].user[1]
                    Admin == UserRole(u) = Some("admin")
                IN  /\ pc'[p] \in {"r_del", "done"}
                    /\ pc'[p] = "r_del" =>
                           /\ t \in DOMAIN db
                           /\ db[t].created_by_id = Some(u) \/ Admin
                           /\ db[t].created_by_id = None => Admin
                    /\ pc'[p] = "done" =>
                           /\ req'[p].result \in {"404", "403"}
                           /\ req'[p].result = "404" <=> t \notin DOMAIN db
                           /\ req'[p].result = "403" =>
                                  db[t].created_by_id # Some(u) /\ ~Admin
                           /\ redis' = redis
                           /\ db' = db ]_vars

\* an administrator has revoked a link whose creator was removed
C19_Witness ==
    \E p \in Procs :
        /\ pc[p] = "done" /\ req[p].op = "revoke" /\ req[p].result = "200"
        /\ db[req[p].token].created_by_id = None
        /\ ~db[req[p].token].is_active
        /\ IsAdmin(req[p].user[1])
\* C20: a create goes on only when the file exists, is not soft-deleted and
\* the requester owns it or is an administrator; an absent or soft-deleted
\* file is answered not found whoever asks, a file of somebody else is
\* answered forbidden, and in both cases neither store is written.
C20_CreateAuthorization ==
    [][ \A p \in Procs :
            (pc[p] = "idle" /\ req'[p].op = "create" /\ req'[p].result # "422") =>
                LET f == req'[p].file[1]
                    u == req'[p].user[1]
                    Exists == f \in FileIds /\ f # 2
                    Allowed == u = 1 \/ UserRole(u) = Some("admin")
                IN  /\ ~Exists => pc'[p] = "done" /\ req'[p].result = "404"
                    /\ Exists /\ ~Allowed => pc'[p] = "done" /\ req'[p].result = "403"
                    /\ Exists /\ Allowed => pc'[p] = "c_set"
                    /\ redis' = redis
                    /\ db' = db ]_vars

\* a user who does not own it has asked for a link to the soft-deleted
\* file and was answered not found
C20_Witness ==
    \E p \in Procs :
        /\ pc[p] = "done" /\ req[p].op = "create" /\ req[p].result = "404"
        /\ req[p].file = Some(2) /\ req[p].user = Some(2)
        /\ redis = << >> /\ db = << >>
\* C21: a create whose lifetime in minutes is outside [1, 43200], or whose
\* maxDownloads is present and below 1, is answered with a validation error
\* and touches neither the fast store nor the durable store: a first step
\* of a create either is that answer or is not the step of any such body.
C21_InvalidCreateRejected ==
    [][ \A p \in Procs :
            (pc[p] = "idle" /\ req'[p].op = "create") =>
                \/ /\ pc'[p] = "done"
                   /\ req'[p].result = "422"
                   /\ redis' = redis
                   /\ db' = db
                   /\ audit' = audit
                \/ \A body \in BoundaryBodies :
                       (\/ body.expiry_minutes < 1
                        \/ body.expiry_minutes > 43200
                        \/ body.max_downloads # None /\ body.max_downloads[1] < 1)
                           => \A f \in FileIds \cup {3} :
                                  ~CreateBegin(p, req'[p].user[1], f, body) ]_vars

\* a create has been answered with the validation error while a link of an
\* earlier create is live
C21_Witness ==
    \E p \in Procs :
        /\ pc[p] = "done" /\ req[p].op = "create" /\ req[p].result = "422"
        /\ redis # << >> /\ DOMAIN db = DOMAIN redis
\* C22: when a create has returned successfully, the durable store holds an
\* active record of the token with downloadCount 0, the fast store holds an
\* entry with downloadCount 0 whose time to live was lifetimeMinutes * 60
\* seconds at the write, and the two agree on fileId, creator, expiresAt,
\* maxDownloads, requiresAuth and allowedEmail.
C22_CreateWritesBothStores ==
    \A p \in Procs :
        (pc[p] = "done" /\ req[p].op = "create" /\ req[p].result = "201") =>
            LET t == req[p].token
                body == req[p].body[1]
                lifetime == body.expiry_minutes * 60
            IN  /\ t \in DOMAIN db
                /\ db[t].is_active
                /\ db[t].download_count = 0
                /\ db[t].file_id = req[p].file[1]
                /\ db[t].created_by_id = req[p].user
                /\ db[t].max_downloads = body.max_downloads
                /\ db[t].requires_auth = body.requires_auth
                /\ db[t].allowed_email = body.allowed_email
                /\ now < req[p].t0 + lifetime => t \in DOMAIN redis
                /\ t \in DOMAIN redis =>
                       /\ redis[t].expire_at = req[p].t0 + lifetime
                       /\ redis[t].value.download_count = 0
                       /\ redis[t].value.file_id = db[t].file_id
                       /\ Some(redis[t].value.created_by) = db[t].created_by_id
                       /\ redis[t].value.expires_at = db[t].expires_at
                       /\ redis[t].value.max_downloads = db[t].max_downloads
                       /\ redis[t].value.requires_auth = db[t].requires_auth
                       /\ redis[t].value.allowed_email = db[t].allowed_email

\* a create of a link restricted to one email has returned and both stores
\* hold the link
C22_Witness ==
    \E p \in Procs :
        /\ pc[p] = "done" /\ req[p].op = "create" /\ req[p].result = "201"
        /\ req[p].token \in DOMAIN redis \cap DOMAIN db
        /\ req[p].body[1].allowed_email = Some("a@x.com")
        /\ req[p].body[1].requires_auth
        /\ RedisTtl(req[p].token) = 60
\* C23: for a token without fast-store entry, validate returns Invalid and
\* info and download answer not found, the same whether the token never
\* existed, has expired or was revoked: whatever the durable store holds
\* for the token, and without touching either store.
C23_UniformNotFound ==
    [][ \A p \in Procs :
            (/\ pc[p] = "idle"
             /\ req'[p].op \in {"download", "info"}
             /\ req'[p].token \notin DOMAIN redis)
                => /\ IsNone(validate_share_link(req'[p].token))
                   /\ pc'[p] = "done"
                   /\ req'[p].result = "404"
                   /\ req'[p].info = None
                   /\ redis' = redis
                   /\ db' = db ]_vars

\* an info request on a link that has expired, whose durable record is
\* still active, has been answered not found
C23_Witness ==
    \E p \in Procs :
        /\ pc[p] = "done" /\ req[p].op = "info" /\ req[p].result = "404"
        /\ req[p].gone
        /\ db[req[p].token].is_active
        /\ now >= db[req[p].token].expires_at
\* C24: the list of a user's share links is exactly the durable records
\* whose creator is that user and whose is_active is true, whatever the
\* fast store holds: every link is in its creator's list from creation
\* until it is revoked.
C24_ListIsExact ==
    \A p \in Procs :
        (pc[p] = "done" /\ req[p].op = "list") =>
            /\ req[p].result = "200"
            /\ req[p].info =
                   Some({t \in DOMAIN db : /\ db[t].created_by_id = req[p].user
                                            /\ db[t].is_active})

\* the audit rows of one action that name this share link
LinkRecords(action, id) ==
    SumCounts(audit, {r \in DOMAIN audit :
                         /\ r.action = action
                         /\ r.resource_type = "share_link"
                         /\ r.resource_id = id})

\* C25: every link has exactly one SHARE_CREATE record, and as many
\* SHARE_ACCESS records as downloads were served through it
C25_AuditFollowsOperations ==
    \A t \in DOMAIN db :
        /\ LinkRecords("SHARE_CREATE", db[t].id) = 1
        /\ LinkRecords("SHARE_ACCESS", db[t].id) = served[t]

\* the file fields an entry of the fast store or an answer carries
Snapshot(d) ==
    [filename |-> d.filename, content_type |-> d.content_type, s3_key |-> d.s3_key]

\* C28: deleting or renaming a file writes neither store of its links; the
\* file fields of a fast-store entry never change; a download of a link that
\* validates and passes the access checks is admitted whatever the state of
\* the file, and is answered with the file fields of the entry
C28_ServedFromSnapshot ==
    [][ /\ files' # files => redis' = redis /\ db' = db
        /\ \A t \in DOMAIN redis \cap DOMAIN redis' :
               Snapshot(redis'[t].value) = Snapshot(redis[t].value)
        /\ \A p \in Procs :
               /\ ( /\ pc[p] = "idle" /\ req'[p].op = "download"
                    /\ validate_share_link(req'[p].token) # None
                    /\ access_check(validate_share_link(req'[p].token)[1],
                                    req'[p].password, req'[p].user) = "ok" )
                     => /\ pc'[p] = "d_inc_get"
                        /\ Snapshot(req'[p].locator[1])
                               = Snapshot(redis[req'[p].token].value)
               /\ (req[p].op = "download" /\ pc[p] \notin {"idle", "done"})
                     => /\ req'[p].locator = req[p].locator
                        /\ pc'[p] = "done" => req'[p].result = "200" ]_vars

\* a download answered with the old name and key of a file that was renamed
\* and then deleted before the request
C28_Witness ==
    \E p \in Procs :
        /\ pc[p] = "done" /\ req[p].op = "download" /\ req[p].result = "200"
        /\ files[req[p].file[1]].is_deleted
        /\ files[req[p].file[1]].filename \in NewFilenames
        /\ Snapshot(req[p].locator[1]) = Snapshot(FileRows[req[p].file[1]])

DeniedResults ==
    {"404", "401_password_required", "401_invalid_password",
     "401_auth_required", "403_forbidden"}

\* C27: a step that answers an info request, or a download request whose
\* link does not validate or whose password, authentication or email check
\* fails, answers at once and leaves both stores (counts, time to live,
\* is_active) and the audit log as they were
C27_DeniedRequestsWriteNothing ==
    [][ \A p \in Procs :
            (/\ pc[p] = "idle"
             /\ req'[p].op \in {"info", "download"}
             /\ \/ req'[p].op = "info"
                \/ IF validate_share_link(req'[p].token) = None THEN TRUE
                   ELSE access_check(validate_share_link(req'[p].token)[1],
                                     req'[p].password, req'[p].user) # "ok")
                => /\ pc'[p] = "done"
                   /\ req'[p].op = "download" => req'[p].result \in DeniedResults
                   /\ redis' = redis /\ db' = db /\ audit' = audit
                   /\ served' = served ]_vars

\* a download refused at the email check on a link that has been served once
C27_Witness ==
    \E p \in Procs :
        /\ pc[p] = "done" /\ req[p].op = "download"
        /\ req[p].result = "403_forbidden"
        /\ req[p].token \in DOMAIN redis
        /\ redis[req[p].token].value.download_count = 1
        /\ db[req[p].token].download_count = 1
        /\ LinkRecords("SHARE_ACCESS", redis[req[p].token].value.file_id) = 1

\* C26: a request that presents the token or the credentials of a
\* deactivated user is refused at once with 403 on the authenticated
\* operations, on login and on refresh, and a download of a link that
\* requires authentication is not admitted with that user's token
C26_DeactivatedUserRefused ==
    [][ \A p \in Procs :
            (/\ pc[p] = "idle" /\ req'[p].op # "none"
             /\ req'[p].user # None
             /\ req'[p].user[1] \in deactivated)
                => IF req'[p].op = "download"
                   THEN ( /\ req'[p].token \in DOMAIN redis
                          /\ redis[req'[p].token].value.requires_auth )
                            => pc'[p] = "done" /\ req'[p].result # "200"
                   ELSE pc'[p] = "done" /\ req'[p].result = "403_deactivated" ]_vars

\* C29: no pair (file, user) has two FilePermission rows
C29_OnePermissionPerPair ==
    \A f \in FileIds, u \in Users : Cardinality(PermissionsOf(f, u)) <= 1

\* C30: every counter key in the store, once the increment that created it
\* has returned, has a time to live that ends at most window_seconds from
\* now; so a client answered 429 is counted on a key that will expire
C30_CounterKeysExpire ==
    \A k \in DOMAIN rate :
        (\A p \in Procs : ~(pc[p] = "rl_expire" /\ req[p].token = k))
            => /\ rate[k].expire_at # None
               /\ rate[k].expire_at[1] <= now + WindowSeconds

====
